---- MODULE Spec2Model ----
(***************************************************************************)
(* Model of nav_data_research.py: one run of the closed-end fund data      *)
(* pull (reference sheet -> bulk prices -> date fallback -> gap fill ->    *)
(* fundamentals as of the valuation date -> report rows -> spreadsheet).   *)
(*                                                                         *)
(* Representation                                                          *)
(*   - a calendar day is an ordinal (day 0 = 2023-12-29); strftime turns   *)
(*     it into the triple <<year, month, day>>, which orders exactly as    *)
(*     the zero-padded text "YYYY-MM-DD" does;                             *)
(*   - a close price is an integer number of cents; a balance-sheet value  *)
(*     is an integer; a value in millions rounded to 2 decimals is an      *)
(*     integer number of hundredths (1235 is 12.35); a quotient is an      *)
(*     integer number of ten-thousandths (9500 is 0.95);                   *)
(*   - None is Python's None, NaN is the float nan (pandas' missing        *)
(*     value);                                                             *)
(*   - the data provider's answers for the run are drawn in Init (yahoo)   *)
(*     and only read afterwards.                                           *)
(***************************************************************************)
EXTENDS Integers, Sequences, FiniteSets, Bags, TLC

VARIABLES
    sheet,              \* the reference spreadsheet load_tickers() returns
    target_date,        \* the date chosen in the date picker (day ordinal)
    yahoo,              \* what the data provider answers during this run
    pc,                 \* position of the run in the script
    date_str,           \* the resolved valuation date, as text
    close_prices,       \* the date-indexed close price table
    fundamentals_batch, \* the dict get_fundamentals_asof_batch returned
    rows,               \* the report rows built so far
    notices,            \* what the page has shown (info/warning/error/success)
    calls,              \* the requests made to the data provider (a bag)
    files,              \* the spreadsheet files written to disk
    download_offered    \* whether the download button was rendered

vars == <<sheet, target_date, yahoo, pc, date_str, close_prices,
          fundamentals_batch, rows, notices, calls, files, download_offered>>

\* Numbers of the program are integers >= 0 here; Python's None and the float
\* nan are two values outside them.  A blank cell of the reference sheet
\* (pandas reads it as NaN) is the text Blank.
None == -1
NaN == -2
Blank == ""

\* pd.isna / a value that ends up as an empty spreadsheet cell
IsNa(v) == v = None \/ v = NaN

\* Python truthiness of a float or None: None and 0 are falsy, nan is truthy
Truthy(v) == v # None /\ v # 0

-----------------------------------------------------------------------------
(* Bounds of the model *)

MaxRows == 2          \* rows of the reference sheet
MaxTableDates == 2    \* dates the bulk price table holds
MaxReports == 2       \* report dates of one balance sheet
MaxLineItems == 1     \* line items of a balance sheet that is not complete
MaxDeviations == 1    \* provider answers that differ from the baseline answer

Days == 0..6
TargetDates == {3}

-----------------------------------------------------------------------------
(* Dates *)

\* date.strftime('%Y-%m-%d'): the text of a day, as <<year, month, day>>
Strftime(d) == IF d <= 2 THEN <<2023, 12, 29 + d>> ELSE <<2024, 1, d - 2>>

\* Python's <= on two "YYYY-MM-DD" texts (lexicographic)
StrLE(a, b) ==
    \/ a[1] < b[1]
    \/ a[1] = b[1] /\ a[2] < b[2]
    \/ a[1] = b[1] /\ a[2] = b[2] /\ a[3] <= b[3]

\* the day a date text names (the provider, and pd.Timestamp, parse it back)
ParseDate(s) == CHOOSE d \in Days : Strftime(d) = s

\* timedelta(days=2)
WindowDays == 2

start_date == Strftime(target_date - WindowDays)
end_date == Strftime(target_date + WindowDays)

\* the days a history request for [start, end) can return rows for
HistoryDays(start, end) ==
    {d \in Days : StrLE(start, Strftime(d)) /\ ~StrLE(end, Strftime(d))}

-----------------------------------------------------------------------------
(* Reference Loader *)

Range(s) == {s[i] : i \in DOMAIN s}

\* the rows a reference sheet may hold; a blank ticker cell reads as NaN
TickerPairs ==
    {<<"FUNDX", "NAVX">>, <<"FUNDY", "NAVX">>, <<Blank, "NAVX">>, <<"FUNDX", Blank>>}

SheetRow(i, pair) ==
    [Fund |-> pair[1], NAV |-> pair[2], FundType |-> 10 + i, Subcategory |-> 20 + i,
     BroadCategory |-> 30 + i, GeographicFocus |-> 40 + i]

Sheets ==
    UNION {{[i \in 1..n |-> SheetRow(i, p[i])] : p \in [1..n -> TickerPairs]} : n \in 1..MaxRows}

\* df.dropna(subset=["Fund", "NAV"])
DropNaAll(df) == SelectSeq(df, LAMBDA r : ~(r.Fund = Blank /\ r.NAV = Blank))
DropNa(df) == SelectSeq(df, LAMBDA r : r.Fund # Blank /\ r.NAV # Blank)

df_tickers == DropNa(sheet)

fund_tickers == [i \in 1..Len(df_tickers) |-> df_tickers[i].Fund]
nav_tickers == [i \in 1..Len(df_tickers) |-> df_tickers[i].NAV]
fund_types == [i \in 1..Len(df_tickers) |-> df_tickers[i].FundType]
fund_subcats == [i \in 1..Len(df_tickers) |-> df_tickers[i].Subcategory]
fund_broadcats == [i \in 1..Len(df_tickers) |-> df_tickers[i].BroadCategory]
fund_regions == [i \in 1..Len(df_tickers) |-> df_tickers[i].GeographicFocus]

\* set(fund_tickers + nav_tickers)
tickers_all == Range(fund_tickers) \cup Range(nav_tickers)

\* list(set(...)): the orders in which the set may be listed
Listings(S) == {q \in [1..Cardinality(S) -> S] : Range(q) = S}

-----------------------------------------------------------------------------
(* The data provider (Yahoo Finance through yfinance), as far as the run    *)
(* reads it.  Its answers are fixed for the run: a baseline answer per      *)
(* request (prices quoted on the valuation day and the day before, one      *)
(* complete balance sheet, a long name), and at most MaxDeviations requests *)
(* answered otherwise.  An outage is one deviation: the bulk table comes    *)
(* back without a price, every single-ticker request raises, the balance    *)
(* sheets come back empty and the metadata without a long name.             *)

SubsetsUpTo(S, n) == {x \in SUBSET S : Cardinality(x) <= n}

LineItems ==
    {"Ordinary Shares Number", "Share Issued", "Total Debt", "Long Term Debt",
     "Current Debt", "Preferred Securities Outside Stock Equity"}

\* the days the provider has balance-sheet reports for, around a valuation day
ReportDays(t) == {t - 1, t, t + 1}

\* one entry per request the run can make
SiteList(sh) ==
    LET T == Listings(Range([i \in 1..Len(DropNa(sh)) |-> DropNa(sh)[i].Fund])
                      \cup Range([i \in 1..Len(DropNa(sh)) |-> DropNa(sh)[i].NAV]))
        F == Listings(Range([i \in 1..Len(DropNa(sh)) |-> DropNa(sh)[i].Fund]))
        tl == CHOOSE q \in T : TRUE
        fl == CHOOSE q \in F : TRUE
    IN  <<<<"bulk", "*">>>>
        \o [i \in 1..Len(tl) |-> <<"price", tl[i]>>]
        \o [i \in 1..Len(fl) |-> <<"reports", fl[i]>>]
        \o [i \in 1..Len(fl) |-> <<"items", fl[i]>>]
        \o [i \in 1..Len(fl) |-> <<"info", fl[i]>>]

\* answers to the single-ticker history request of the gap filler
RetryAnswers(t) ==
    {[raises |-> TRUE, days |-> {}, close |-> "ok"]}
    \cup {[raises |-> FALSE, days |-> {}, close |-> "ok"]}
    \cup {[raises |-> FALSE, days |-> d, close |-> c] :
            d \in {{t - WindowDays}, (t - WindowDays)..(t + WindowDays - 1)},
            c \in {"ok", "nan"}}

Baseline(site, t) ==
    CASE site[1] = "bulk" -> [days |-> {t - 1, t}, outage |-> FALSE]
      [] site[1] = "price" ->
            [bulk |-> "ok", retry |-> [raises |-> FALSE, close |-> "ok",
                                       days |-> (t - WindowDays)..(t + WindowDays - 1)]]
      [] site[1] = "reports" -> [raises |-> FALSE, columns |-> {t - 1}]
      [] site[1] = "items" -> LineItems
      [] site[1] = "info" -> [raises |-> FALSE, longName |-> TRUE]

Deviations(site, t) ==
    (CASE site[1] = "bulk" ->
            {[days |-> d, outage |-> FALSE] :
                d \in SubsetsUpTo((t - WindowDays)..(t + WindowDays - 1), MaxTableDates)}
            \cup {[days |-> {t - 1, t}, outage |-> TRUE]}
      [] site[1] = "price" ->
            {[bulk |-> "zero", retry |-> [raises |-> FALSE, close |-> "ok",
                                          days |-> (t - WindowDays)..(t + WindowDays - 1)]]}
            \cup {[bulk |-> b, retry |-> r] : b \in {"nan", "missing"}, r \in RetryAnswers(t)}
      [] site[1] = "reports" ->
            {[raises |-> TRUE, columns |-> {}]}
            \cup {[raises |-> FALSE, columns |-> c] : c \in SubsetsUpTo(ReportDays(t), MaxReports)}
      [] site[1] = "items" -> SubsetsUpTo(LineItems, MaxLineItems)
      [] site[1] = "info" ->
            {[raises |-> TRUE, longName |-> FALSE], [raises |-> FALSE, longName |-> FALSE]})
    \ {Baseline(site, t)}

\* the answer lists for the sites from position i on, with at most k deviations
RECURSIVE AnswerLists(_, _, _, _)
AnswerLists(sites, t, i, k) ==
    IF i > Len(sites) THEN {<<>>}
    ELSE {<<Baseline(sites[i], t)>> \o rest : rest \in AnswerLists(sites, t, i + 1, k)}
         \cup (IF k = 0 THEN {}
               ELSE {<<a>> \o rest : a \in Deviations(sites[i], t),
                                     rest \in AnswerLists(sites, t, i + 1, k - 1)})

Worlds(sh, t) ==
    LET sites == SiteList(sh)
        Of(w, kind) == {<<sites[i][2], w[i]>> : i \in {j \in 1..Len(sites) : sites[j][1] = kind}}
        Fn(pairs) == [x \in {p[1] : p \in pairs} |-> (CHOOSE p \in pairs : p[1] = x)[2]]
    IN  {[bulk |-> w[1], price |-> Fn(Of(w, "price")), reports |-> Fn(Of(w, "reports")),
          items |-> Fn(Of(w, "items")), info |-> Fn(Of(w, "info"))] :
            w \in AnswerLists(sites, t, 1, MaxDeviations)}

\* close prices the provider quotes, in cents: the bulk request asks for raw
\* prices (auto_adjust=False), the single-ticker request for the default ones
PriceBase(c) == CASE c = "FUNDX" -> 950 [] c = "FUNDY" -> 1200 [] OTHER -> 1000
Quote(c, d) == PriceBase(c) + 10 * d - 30
RetryQuote(c, d) == Quote(c, d) + 1

\* balance-sheet values the provider reports
ItemBase(row) ==
    CASE row = "Ordinary Shares Number" -> 9345678
      [] row = "Share Issued" -> 17000000
      [] row = "Total Debt" -> 4000001
      [] row = "Long Term Debt" -> 3000002
      [] row = "Current Debt" -> 1000003
      [] OTHER -> 30000004
Ledger(f, row, d) ==
    IF row = "Total Debt" /\ d = 3 THEN 0
    ELSE IF row = "Long Term Debt" /\ d = 3 THEN NaN
    ELSE ItemBase(row) + 1000000 * d + (IF f = "FUNDY" THEN 100 ELSE 0)

\* yf.download(tickers_all, start, end, auto_adjust=False, group_by="ticker"):
\* the Close level of the frame it returns
BulkDownload(tickers, start, end) ==
    LET idx == yahoo.bulk.days \cap HistoryDays(start, end)
        cols == {c \in tickers : yahoo.price[c].bulk # "missing"}
    IN  [index |-> idx, columns |-> cols,
         loc |-> [k \in idx \X cols |->
                    IF yahoo.bulk.outage \/ yahoo.price[k[2]].bulk = "nan" THEN NaN
                    ELSE IF yahoo.price[k[2]].bulk = "zero" THEN 0
                    ELSE Quote(k[2], k[1])]]

\* yf.download(ticker, start, end): it raises, or returns a frame
SingleDownload(ticker, start, end) ==
    LET a == yahoo.price[ticker].retry
        idx == a.days \cap HistoryDays(start, end)
    IN  [raises |-> a.raises \/ yahoo.bulk.outage,
         index |-> idx,
         Close |-> [d \in idx |-> IF a.close = "nan" THEN NaN ELSE RetryQuote(ticker, d)]]

\* Ticker.quarterly_balance_sheet: it raises, or returns a frame with one
\* column per report date and one row per line item
BalanceSheet(ticker) ==
    LET cols == IF yahoo.bulk.outage THEN {} ELSE yahoo.reports[ticker].columns
        idx == yahoo.items[ticker]
    IN  [raises |-> yahoo.reports[ticker].raises,
         columns |-> cols, index |-> idx,
         loc |-> [k \in idx \X cols |-> Ledger(ticker, k[1], k[2])]]

\* Ticker.info: it raises, or returns a dict that may hold "longName"
LongNameOf(ticker) == "Long name of " \o ticker
Info(ticker) ==
    [raises |-> yahoo.info[ticker].raises,
     hasLongName |-> yahoo.info[ticker].longName /\ ~yahoo.bulk.outage,
     longName |-> LongNameOf(ticker)]

-----------------------------------------------------------------------------
(* Price table *)

\* prices.xs("Close", axis=1, level=1), then index.strftime("%Y-%m-%d")
NormalizeClose(prices) ==
    LET idx == {Strftime(d) : d \in prices.index}
    IN  [index |-> idx, columns |-> prices.columns,
         loc |-> [k \in idx \X prices.columns |-> prices.loc[<<ParseDate(k[1]), k[2]>>]]]

\* min() and max() of a non-empty set of date texts
StrMin(S) == CHOOSE m \in S : \A x \in S : StrLE(m, x)
StrMax(S) == CHOOSE m \in S : \A x \in S : StrLE(x, m)

\* max([d for d in available_dates if d <= date_str], default=None)
FallbackDateAny(available_dates, ds) ==
    IF available_dates = {} THEN <<>> ELSE <<StrMax(available_dates)>>
FallbackDateEarliest(available_dates, ds) ==
    LET cands == {d \in available_dates : StrLE(d, ds)}
    IN  IF cands = {} THEN <<>> ELSE <<StrMin(cands)>>
FallbackDate(available_dates, ds) ==
    LET cands == {d \in available_dates : StrLE(d, ds)}
    IN  IF cands = {} THEN <<>> ELSE <<StrMax(cands)>>

\* close_prices.loc[d, c] = v (a new column reads NaN on the other dates)
SetLoc(cp, d, c, v) ==
    LET cols == cp.columns \cup {c}
    IN  [index |-> cp.index, columns |-> cols,
         loc |-> [k \in cp.index \X cols |->
                    IF k = <<d, c>> THEN v
                    ELSE IF k[2] \in cp.columns THEN cp.loc[k] ELSE NaN]]

\* the condition of the gap filler's if
NeedsRetryAlways(cp, ds, ticker) == TRUE
NeedsRetry(cp, ds, ticker) ==
    ticker \notin cp.columns \/ IsNa(cp.loc[<<ds, ticker>>])

\* the try block of the gap filler for one ticker, with its except clause:
\* the table afterwards, and whether an exception leaves the block
RetryTickerUncaught(cp, ds, start, end, ticker) ==
    LET data == SingleDownload(ticker, start, end)
        idx == {Strftime(d) : d \in data.index}
    IN  IF data.raises THEN [close_prices |-> cp, raised |-> TRUE]
        ELSE IF data.index # {} /\ ds \in idx
             THEN [close_prices |-> SetLoc(cp, ds, ticker, data.Close[ParseDate(ds)]),
                   raised |-> FALSE]
             ELSE [close_prices |-> cp, raised |-> FALSE]
RetryTicker(cp, ds, start, end, ticker) ==
    LET data == SingleDownload(ticker, start, end)
        idx == {Strftime(d) : d \in data.index}
    IN  IF data.raises THEN [close_prices |-> cp, raised |-> FALSE]
        ELSE IF data.index # {} /\ ds \in idx
             THEN [close_prices |-> SetLoc(cp, ds, ticker, data.Close[ParseDate(ds)]),
                   raised |-> FALSE]
             ELSE [close_prices |-> cp, raised |-> FALSE]

\* fetch_missing_prices(tickers, date_str, start_date, end_date, close_prices):
\* the table it returns, the single-ticker requests it made, and whether an
\* exception left it
RECURSIVE fetch_missing_prices(_, _, _, _, _)
fetch_missing_prices(tickers, ds, start, end, cp) ==
    IF tickers = <<>> THEN [close_prices |-> cp, calls |-> EmptyBag, raised |-> FALSE]
    ELSE LET ticker == Head(tickers)
         IN  IF NeedsRetry(cp, ds, ticker)
             THEN LET r == RetryTicker(cp, ds, start, end, ticker)
                      rest == fetch_missing_prices(Tail(tickers), ds, start, end, r.close_prices)
                      call == SetToBag({<<"single", ticker>>})
                  IN  IF r.raised
                      THEN [close_prices |-> r.close_prices, calls |-> call, raised |-> TRUE]
                      ELSE [close_prices |-> rest.close_prices, calls |-> call (+) rest.calls,
                            raised |-> rest.raised]
             ELSE fetch_missing_prices(Tail(tickers), ds, start, end, cp)

-----------------------------------------------------------------------------
(* Fundamentals as of a date *)

SharesRows == <<"Ordinary Shares Number", "Share Issued">>
DebtRows == <<"Total Debt", "Long Term Debt", "Current Debt">>
EquityRows == <<"Preferred Securities Outside Stock Equity">>

\* next((balance.loc[row, latest] for row in names if row in balance.index), None)
RECURSIVE LastInIndex(_, _, _)
LastInIndex(balance, names, latest) ==
    IF names = <<>> THEN None
    ELSE IF names[Len(names)] \in balance.index THEN balance.loc[<<names[Len(names)], latest>>]
    ELSE LastInIndex(balance, SubSeq(names, 1, Len(names) - 1), latest)
RECURSIVE FirstInIndex(_, _, _)
FirstInIndex(balance, names, latest) ==
    IF names = <<>> THEN None
    ELSE IF Head(names) \in balance.index THEN balance.loc[<<Head(names), latest>>]
    ELSE FirstInIndex(balance, Tail(names), latest)

SetMax(S) == CHOOSE m \in S : \A x \in S : x <= m

NoSnapshot ==
    [shares_outstanding |-> None, total_debt |-> None, outside_equity |-> None,
     report_date |-> None]

\* the body of the loop of get_fundamentals_asof_batch for a balance sheet
SnapshotLowPriority(balance, as_of_date) ==
    LET valid_dates == {d \in balance.columns : d <= as_of_date}
    IN  IF balance.columns = {} \/ balance.index = {} THEN NoSnapshot
        ELSE IF valid_dates = {} THEN NoSnapshot
        ELSE LET latest == SetMax(valid_dates)
             IN  [shares_outstanding |-> LastInIndex(balance, SharesRows, latest),
                  total_debt |-> LastInIndex(balance, DebtRows, latest),
                  outside_equity |-> LastInIndex(balance, EquityRows, latest),
                  report_date |-> latest]
Snapshot(balance, as_of_date) ==
    LET valid_dates == {d \in balance.columns : d <= as_of_date}
    IN  IF balance.columns = {} \/ balance.index = {} THEN NoSnapshot
        ELSE IF valid_dates = {} THEN NoSnapshot
        ELSE LET latest == SetMax(valid_dates)
             IN  [shares_outstanding |-> FirstInIndex(balance, SharesRows, latest),
                  total_debt |-> FirstInIndex(balance, DebtRows, latest),
                  outside_equity |-> FirstInIndex(balance, EquityRows, latest),
                  report_date |-> latest]

\* get_fundamentals_asof_batch(ticker_list, as_of_date): the dict it returns,
\* the balance-sheet requests it made, and the ticker whose request raised
\* (nothing catches it), if one did
RECURSIVE get_fundamentals_asof_batch(_, _, _)
get_fundamentals_asof_batch(ticker_list, as_of_date, results) ==
    IF ticker_list = <<>> THEN [results |-> results, calls |-> EmptyBag, raised |-> <<>>]
    ELSE LET ticker == Head(ticker_list)
             balance == BalanceSheet(ticker)
             call == SetToBag({<<"balance", ticker>>})
         IN  IF balance.raises
             THEN [results |-> results, calls |-> call, raised |-> <<ticker>>]
             ELSE LET snap == Snapshot(balance, as_of_date)
                      done == [t \in DOMAIN results \cup {ticker} |->
                                 IF t = ticker THEN snap ELSE results[t]]
                      rest == get_fundamentals_asof_batch(Tail(ticker_list), as_of_date, done)
                  IN  [results |-> rest.results, calls |-> call (+) rest.calls,
                       raised |-> rest.raised]

\* the date the run passes as as_of_date
AsOfResolved == ParseDate(date_str)
AsOfArgument == target_date

-----------------------------------------------------------------------------
(* Report rows *)

\* a / b on floats, in ten-thousandths
Quotient(a, b) == IF a = NaN \/ b = NaN THEN NaN ELSE (a * 10000) \div b

\* (fund_price / nav_price) if (fund_price and nav_price) else None
Discount(fund_price, nav_price) ==
    IF Truthy(fund_price) /\ Truthy(nav_price) THEN Quotient(fund_price, nav_price) ELSE None

\* round(x / 1_000_000, 2), in hundredths (no value of the model is a tie)
RoundMillions(x) ==
    IF x = NaN THEN NaN
    ELSE LET q == x \div 10000
             r == x % 10000
         IN  IF 2 * r > 10000 \/ (2 * r = 10000 /\ q % 2 = 1) THEN q + 1 ELSE q

\* round(x / 1_000_000, 2) if x else None
Millions(x) == IF Truthy(x) THEN RoundMillions(x) ELSE None

\* close_prices.loc[date_str, t] if t in close_prices.columns else None
PriceOf(cp, ds, t) == IF t \in cp.columns THEN cp.loc[<<ds, t>>] ELSE None

\* fundamentals_batch.get(fund, {}).get(key)
FundamentalOf(batch, fund, key) == IF fund \in DOMAIN batch THEN batch[fund][key] ELSE None

\* the list appended to rows for the fund at position idx of the zip
ReportRow(idx, fund_name) ==
    LET fund == fund_tickers[idx]
        nav == nav_tickers[idx]
        fund_price == PriceOf(close_prices, date_str, fund)
        nav_price == PriceOf(close_prices, date_str, nav)
    IN  [FundName |-> fund_name, BroadCategory |-> fund_broadcats[idx],
         FundType |-> fund_types[idx], Subcategory |-> fund_subcats[idx],
         GeographicFocus |-> fund_regions[idx], Date |-> date_str,
         FundTicker |-> fund, FundClosePrice |-> fund_price,
         NAVTicker |-> nav, NAVClosePrice |-> nav_price,
         Discount |-> Discount(fund_price, nav_price),
         SharesOutstandingM |->
             Millions(FundamentalOf(fundamentals_batch, fund, "shares_outstanding")),
         TotalDebtM |-> Millions(FundamentalOf(fundamentals_batch, fund, "total_debt")),
         OutsideEquityM |->
             Millions(FundamentalOf(fundamentals_batch, fund, "outside_equity"))]

Columns ==
    <<"Fund Name", "Broad Category", "Fund Type", "Subcategory", "Geographic Focus", "Date",
      "Fund Ticker", "Fund Close Price", "NAV Ticker", "NAV Close Price", "Discount",
      "Shares Outstanding(M)", "Total Debt(M)", "Outside Equity (M)">>

\* the workbook saved under Closed_End_Fund_Data_<date_str>.xlsx
Workbook(ds, data) ==
    [name |-> <<"Closed_End_Fund_Data_", ds, ".xlsx">>, header |-> Columns, data |-> data,
     message_row |-> (1 + Len(data)) + 2]

-----------------------------------------------------------------------------
(* The run *)

EmptyTable == [index |-> {}, columns |-> {}, loc |-> <<>>]

Init ==
    /\ sheet \in Sheets
    /\ target_date \in TargetDates
    /\ yahoo \in Worlds(sheet, target_date)
    /\ pc = "start"
    /\ date_str = Strftime(target_date)
    /\ close_prices = EmptyTable
    /\ fundamentals_batch = <<>>
    /\ rows = <<>>
    /\ notices = <<>>
    /\ calls = EmptyBag
    /\ files = {}
    /\ download_offered = FALSE

\* "Download NAV Data" pressed: the bulk download, the Close table, and the
\* fallback to the nearest earlier date
Download ==
    /\ pc = "start"
    /\ LET prices == BulkDownload(tickers_all, start_date, end_date)
           table == NormalizeClose(prices)
           fallback_date == FallbackDate(table.index, date_str)
       IN  /\ close_prices' = table
           /\ calls' = calls (+) SetToBag({<<"bulk", "*">>})
           /\ IF date_str \in table.index
              THEN /\ date_str' = date_str
                   /\ notices' = Append(notices, [level |-> "info", text |-> "prices"])
                   /\ pc' = "retry"
              ELSE IF fallback_date # <<>>
              THEN /\ date_str' = fallback_date[1]
                   /\ notices' = notices \o <<[level |-> "info", text |-> "prices"],
                                              [level |-> "warning", missing |-> date_str,
                                               fallback |-> fallback_date[1]]>>
                   /\ pc' = "retry"
              ELSE /\ date_str' = date_str
                   /\ notices' = notices \o <<[level |-> "info", text |-> "prices"],
                                              [level |-> "error", missing |-> date_str]>>
                   /\ pc' = "stopped"
    /\ UNCHANGED <<sheet, target_date, yahoo, fundamentals_batch, rows, files,
                   download_offered>>

\* close_prices = fetch_missing_prices(tickers_all, date_str, ...)
RetryMissing ==
    /\ pc = "retry"
    /\ \E order \in Listings(tickers_all) :
        LET r == fetch_missing_prices(order, date_str, start_date, end_date, close_prices)
        IN  /\ close_prices' = r.close_prices
            /\ calls' = calls (+) r.calls
            /\ pc' = IF r.raised THEN "crashed" ELSE "fundamentals"
            /\ notices' = IF r.raised
                          THEN Append(notices, [level |-> "exception", call |-> "single"])
                          ELSE notices
    /\ UNCHANGED <<sheet, target_date, yahoo, date_str, fundamentals_batch, rows, files,
                   download_offered>>

\* fundamentals_batch = get_fundamentals_asof_batch(fund_tickers, target_date)
Fundamentals ==
    /\ pc = "fundamentals"
    /\ LET r == get_fundamentals_asof_batch(fund_tickers, AsOfArgument, <<>>)
       IN  /\ calls' = calls (+) r.calls
           /\ IF r.raised # <<>>
              THEN /\ fundamentals_batch' = fundamentals_batch
                   /\ pc' = "crashed"
                   /\ notices' = notices \o <<[level |-> "info", text |-> "fundamentals"],
                                              [level |-> "exception", call |-> "balance",
                                               ticker |-> r.raised[1]]>>
              ELSE /\ fundamentals_batch' = r.results
                   /\ pc' = "rows"
                   /\ notices' = Append(notices, [level |-> "info", text |-> "fundamentals"])
    /\ UNCHANGED <<sheet, target_date, yahoo, date_str, close_prices, rows, files,
                   download_offered>>

\* one pass of the loop over the funds: the row for the next fund
BuildRow ==
    /\ pc = "rows"
    /\ Len(rows) < Len(fund_tickers)
    /\ LET idx == Len(rows) + 1
           fund == fund_tickers[idx]
           info == Info(fund)
           fund_name == IF info.hasLongName THEN info.longName ELSE fund
       IN  /\ calls' = calls (+) SetToBag({<<"info", fund>>})
           /\ IF info.raises
              THEN /\ rows' = rows
                   /\ pc' = "crashed"
                   /\ notices' = Append(notices, [level |-> "exception", call |-> "info",
                                                  ticker |-> fund])
              ELSE /\ rows' = Append(rows, ReportRow(idx, fund_name))
                   /\ pc' = pc
                   /\ notices' = notices
    /\ UNCHANGED <<sheet, target_date, yahoo, date_str, close_prices, fundamentals_batch,
                   files, download_offered>>

\* after the loop: the workbook, the provenance note, the download button
Export ==
    /\ pc = "rows"
    /\ Len(rows) = Len(fund_tickers)
    /\ files' = files \cup {Workbook(date_str, rows)}
    /\ notices' = Append(notices, [level |-> "success", text |-> "complete"])
    /\ download_offered' = TRUE
    /\ pc' = "done"
    /\ UNCHANGED <<sheet, target_date, yahoo, date_str, close_prices, fundamentals_batch,
                   rows, calls>>

Next == Download \/ RetryMissing \/ Fundamentals \/ BuildRow \/ Export

Spec == Init /\ [][Next]_vars

-----------------------------------------------------------------------------
(* What the claims are stated over: the provider's answers and the sheet,   *)
(* read directly, not through the operators that model the program.         *)

\* the text "YYYY-MM-DD" of each day of the calendar
IsoDate(d) ==
    CASE d = 0 -> <<2023, 12, 29>> [] d = 1 -> <<2023, 12, 30>> [] d = 2 -> <<2023, 12, 31>>
      [] d = 3 -> <<2024, 1, 1>> [] d = 4 -> <<2024, 1, 2>> [] d = 5 -> <<2024, 1, 3>>
      [] OTHER -> <<2024, 1, 4>>

\* the days of the bulk price table, and those on or before the chosen date
TableDays == yahoo.bulk.days
EarlierDays == {d \in TableDays : d <= target_date}
\* the day the run has to resolve to, when there is one
ResolvedDay == IF target_date \in TableDays THEN target_date ELSE SetMax(EarlierDays)

\* what the bulk table held for a ticker
BulkHasColumn(c) == yahoo.price[c].bulk # "missing"
BulkValue(c, d) ==
    IF yahoo.bulk.outage \/ yahoo.price[c].bulk = "nan" THEN NaN
    ELSE IF yahoo.price[c].bulk = "zero" THEN 0 ELSE Quote(c, d)
BulkMissing(c) == yahoo.bulk.outage \/ yahoo.price[c].bulk \in {"nan", "missing"}

\* what the single-ticker request for a ticker answers
RetryRaises(c) == yahoo.bulk.outage \/ yahoo.price[c].retry.raises
RetryHasDay(c, d) == ~RetryRaises(c) /\ d \in yahoo.price[c].retry.days
RetryValue(c, d) == IF yahoo.price[c].retry.close = "nan" THEN NaN ELSE RetryQuote(c, d)

\* the balance sheet the provider holds for a fund
SheetColumns(f) == IF yahoo.bulk.outage THEN {} ELSE yahoo.reports[f].columns
SheetItems(f) == yahoo.items[f]

Shown(level) == {i \in 1..Len(notices) : notices[i].level = level}
Crashed(call) ==
    /\ pc = "crashed"
    /\ notices # <<>>
    /\ notices[Len(notices)].level = "exception"
    /\ notices[Len(notices)].call = call
AfterRetry == pc \in {"fundamentals", "rows", "done"} \/ Crashed("balance") \/ Crashed("info")
Funds == Range(fund_tickers)

-----------------------------------------------------------------------------
(* C1: a completed run emits exactly one report row per reference row that  *)
(* has both tickers, in the sheet's order, and none for a row missing a     *)
(* ticker; a fund with no price and no fundamentals is emitted all the same.*)
(* While the rows are built they are a prefix of that list; the workbook    *)
(* holds exactly the rows.                                                  *)
C1_RowPerReferenceRow ==
    LET both == {j \in 1..Len(sheet) : sheet[j].Fund # Blank /\ sheet[j].NAV # Blank}
        pos(i) == CHOOSE j \in both : Cardinality({k \in both : k <= j}) = i
    IN  /\ Len(rows) <= Cardinality(both)
        /\ \A i \in 1..Len(rows) :
              /\ rows[i].FundTicker = sheet[pos(i)].Fund
              /\ rows[i].NAVTicker = sheet[pos(i)].NAV
              /\ rows[i].FundType = sheet[pos(i)].FundType
              /\ rows[i].Subcategory = sheet[pos(i)].Subcategory
              /\ rows[i].BroadCategory = sheet[pos(i)].BroadCategory
              /\ rows[i].GeographicFocus = sheet[pos(i)].GeographicFocus
        /\ pc = "done" => /\ Len(rows) = Cardinality(both)
                          /\ Cardinality(files) = 1
                          /\ \A f \in files : f.data = rows

\* a completed run over a sheet with a dropped row, whose one emitted fund has
\* no price and no fundamentals at all
C1_Witness ==
    /\ pc = "done"
    /\ Len(sheet) = 2
    /\ Len(rows) = 1
    /\ IsNa(rows[1].FundClosePrice) /\ IsNa(rows[1].NAVClosePrice) /\ IsNa(rows[1].Discount)
    /\ IsNa(rows[1].SharesOutstandingM) /\ IsNa(rows[1].TotalDebtM)
    /\ IsNa(rows[1].OutsideEquityM)

(* C2: in every report row Discount is populated if and only if both close  *)
(* prices are present and the NAV price is nonzero, and then it is          *)
(* fundPrice / navPrice (so a fund price of exactly 0 over a nonzero NAV     *)
(* price gives a populated Discount).                                       *)
C2_DiscountIffPricesPresent ==
    \A i \in 1..Len(rows) :
        LET fp == rows[i].FundClosePrice
            np == rows[i].NAVClosePrice
            populated == ~IsNa(fp) /\ ~IsNa(np) /\ np # 0
        IN  /\ ~IsNa(rows[i].Discount) <=> populated
            /\ populated => rows[i].Discount = (fp * 10000) \div np

(* C3: when the chosen date is not a date of the bulk table and the table   *)
(* holds a date on or before it, the run goes on with the greatest such     *)
(* date, shows one warning naming it before any row is built, and uses that *)
(* date for the price lookup and the Date field of every row; when the      *)
(* chosen date is in the table it stays the resolved date, with no warning. *)
C3_DateFallback ==
    pc # "start" =>
        /\ target_date \in TableDays =>
              /\ date_str = IsoDate(target_date)
              /\ Shown("warning") = {}
        /\ target_date \notin TableDays /\ EarlierDays # {} =>
              /\ pc # "stopped"
              /\ date_str = IsoDate(SetMax(EarlierDays))
              /\ Cardinality(Shown("warning")) = 1
              /\ \A i \in Shown("warning") :
                    /\ notices[i].fallback = IsoDate(SetMax(EarlierDays))
                    /\ notices[i].missing = IsoDate(target_date)
        /\ \A i \in 1..Len(rows) :
              /\ rows[i].Date = date_str
              /\ rows[i].FundClosePrice =
                    (IF rows[i].FundTicker \in close_prices.columns
                     THEN close_prices.loc[<<date_str, rows[i].FundTicker>>] ELSE None)
              /\ rows[i].NAVClosePrice =
                    (IF rows[i].NAVTicker \in close_prices.columns
                     THEN close_prices.loc[<<date_str, rows[i].NAVTicker>>] ELSE None)
        /\ \A f \in files : f.name = <<"Closed_End_Fund_Data_", date_str, ".xlsx">>

\* a completed run that fell back, with two earlier dates to choose from
C3_Witness ==
    /\ pc = "done"
    /\ rows # <<>>
    /\ target_date \notin TableDays
    /\ Cardinality(EarlierDays) = 2
    /\ rows[1].Date = IsoDate(target_date - 1)

(* C4: when the chosen date is not in the bulk table and the table has no   *)
(* date on or before it, the run stops with an error and produces nothing:  *)
(* no single-ticker re-fetch, no fundamentals fetch, no row, no file, no    *)
(* download offer.                                                          *)
C4_NoDateStopsRun ==
    target_date \notin TableDays /\ EarlierDays = {} =>
        /\ pc \in {"start", "stopped"}
        /\ pc = "stopped" => Cardinality(Shown("error")) = 1
        /\ BagToSet(calls) \subseteq {<<"bulk", "*">>}
        /\ fundamentals_batch = <<>>
        /\ rows = <<>>
        /\ files = {}
        /\ ~download_offered
        /\ Shown("success") = {}

\* a stopped run whose table holds only a date after the chosen one
C4_Witness ==
    /\ pc = "stopped"
    /\ TableDays = {target_date + 1}
    /\ Shown("error") # {}

(* C5: every ticker whose close price is absent or null on the resolved     *)
(* date after the bulk fetch is re-fetched exactly once, and no other       *)
(* ticker is; when the re-fetch returns a close price for the resolved date *)
(* the table holds that value, and when it raises, comes back empty or      *)
(* lacks that date the price stays absent; a failed re-fetch never ends the *)
(* run, so every remaining ticker is still handled.                         *)
C5_GapFill ==
    /\ ~Crashed("single")
    /\ pc \in {"start", "retry", "stopped"} =>
          \A c \in tickers_all : CopiesIn(<<"single", c>>, calls) = 0
    /\ AfterRetry =>
          \A c \in tickers_all :
              LET absent == c \notin close_prices.columns
                            \/ IsNa(close_prices.loc[<<date_str, c>>])
              IN  /\ CopiesIn(<<"single", c>>, calls) = (IF BulkMissing(c) THEN 1 ELSE 0)
                  /\ BulkMissing(c) /\ RetryHasDay(c, ResolvedDay)
                        /\ ~IsNa(RetryValue(c, ResolvedDay)) =>
                        /\ ~absent
                        /\ close_prices.loc[<<date_str, c>>] = RetryValue(c, ResolvedDay)
                  /\ BulkMissing(c) /\ ~RetryHasDay(c, ResolvedDay) => absent
                  /\ BulkMissing(c) /\ RetryHasDay(c, ResolvedDay)
                        /\ IsNa(RetryValue(c, ResolvedDay)) => absent

\* a completed run in which one ticker came back null from the bulk fetch and
\* was patched by its one re-fetch, next to a ticker that was never re-fetched
C5_Witness ==
    /\ pc = "done"
    /\ \E c \in tickers_all :
          /\ BulkMissing(c)
          /\ CopiesIn(<<"single", c>>, calls) = 1
          /\ c \in close_prices.columns
          /\ close_prices.loc[<<date_str, c>>] = RetryQuote(c, ResolvedDay)
    /\ \E c \in tickers_all : ~BulkMissing(c) /\ CopiesIn(<<"single", c>>, calls) = 0

(* C6: a failure of the fundamentals fetch or of the display-name lookup    *)
(* for one fund is caught: it never ends the run, the fund's fields degrade *)
(* (no fundamentals, the ticker as its name) and a completed run follows    *)
(* with one row for every fund.                                             *)
C6_FailureIsolated ==
    /\ ~Crashed("balance")
    /\ ~Crashed("info")
    /\ pc = "done" => \A i \in 1..Len(rows) :
          LET f == rows[i].FundTicker
          IN  /\ yahoo.reports[f].raises =>
                    /\ IsNa(rows[i].SharesOutstandingM)
                    /\ IsNa(rows[i].TotalDebtM)
                    /\ IsNa(rows[i].OutsideEquityM)
              /\ yahoo.info[f].raises => rows[i].FundName = f

(* C7: for every fund, get_fundamentals_asof_batch picks the greatest       *)
(* report date that is on or before the valuation date and reads the three  *)
(* fields from that report, never from a later one; with an empty balance   *)
(* sheet or no report date on or before the valuation date the four fields  *)
(* are absent.  The valuation date is the date the user chose, also when    *)
(* the prices fell back to an earlier date.                                 *)
C7_AsOfPolicy ==
    /\ pc \in {"rows", "done"} => DOMAIN fundamentals_batch = Funds
    /\ \A f \in DOMAIN fundamentals_batch :
          LET snap == fundamentals_batch[f]
              valid == {d \in SheetColumns(f) : d <= target_date}
              ofReport == {Ledger(f, row, snap.report_date) : row \in SheetItems(f)}
          IN  IF SheetColumns(f) = {} \/ SheetItems(f) = {} \/ valid = {}
              THEN /\ snap.shares_outstanding = None
                   /\ snap.total_debt = None
                   /\ snap.outside_equity = None
                   /\ snap.report_date = None
              ELSE /\ snap.report_date = SetMax(valid)
                   /\ snap.report_date <= target_date
                   /\ snap.shares_outstanding \in ofReport \cup {None}
                   /\ snap.total_debt \in ofReport \cup {None}
                   /\ snap.outside_equity \in ofReport \cup {None}

\* the prices fell back to an earlier date, and a fund's snapshot is the
\* report dated after that date, on or before the chosen one
C7_Witness ==
    /\ pc = "done"
    /\ date_str # IsoDate(target_date)
    /\ \E f \in DOMAIN fundamentals_batch :
          /\ fundamentals_batch[f].report_date # None
          /\ \E d \in TableDays : IsoDate(d) = date_str /\ d < fundamentals_batch[f].report_date
          /\ ~IsNa(fundamentals_batch[f].shares_outstanding)

(* C8: each of Shares Outstanding(M), Total Debt(M) and Outside Equity (M)  *)
(* is present if and only if its source value is present, and is then the   *)
(* source value divided by 1,000,000 rounded to 2 decimals; a source value  *)
(* of exactly 0 gives a present 0, an absent one gives absent.              *)
C8_MillionsIffSourcePresent ==
    \A i \in 1..Len(rows) :
        LET snap == fundamentals_batch[rows[i].FundTicker]
            Scaled(out, src) ==
                /\ ~IsNa(out) <=> ~IsNa(src)
                /\ ~IsNa(src) => out = (src + 5000) \div 10000
        IN  /\ Scaled(rows[i].SharesOutstandingM, snap.shares_outstanding)
            /\ Scaled(rows[i].TotalDebtM, snap.total_debt)
            /\ Scaled(rows[i].OutsideEquityM, snap.outside_equity)

(* C9: in the selected report, sharesOutstanding is the value of the first  *)
(* of Ordinary Shares Number, Share Issued that is a line item of the       *)
(* balance sheet, totalDebt of the first of Total Debt, Long Term Debt,     *)
(* Current Debt, outsideEquity of Preferred Securities Outside Stock        *)
(* Equity; a field with no candidate among the line items is absent.        *)
C9_LineItemPriority ==
    \A f \in DOMAIN fundamentals_batch :
        LET snap == fundamentals_batch[f]
            items == SheetItems(f)
            At(row) == Ledger(f, row, snap.report_date)
        IN  snap.report_date # None =>
              /\ snap.shares_outstanding =
                    (IF "Ordinary Shares Number" \in items THEN At("Ordinary Shares Number")
                     ELSE IF "Share Issued" \in items THEN At("Share Issued")
                     ELSE None)
              /\ snap.total_debt =
                    (IF "Total Debt" \in items THEN At("Total Debt")
                     ELSE IF "Long Term Debt" \in items THEN At("Long Term Debt")
                     ELSE IF "Current Debt" \in items THEN At("Current Debt")
                     ELSE None)
              /\ snap.outside_equity =
                    (IF "Preferred Securities Outside Stock Equity" \in items
                     THEN At("Preferred Securities Outside Stock Equity")
                     ELSE None)

\* a balance sheet without the first candidate for the shares: the second one
\* is read, and the fields with no candidate are absent
C9_Witness ==
    /\ pc = "done"
    /\ \E f \in DOMAIN fundamentals_batch :
          /\ SheetItems(f) = {"Share Issued"}
          /\ fundamentals_batch[f].report_date = target_date - 1
          /\ fundamentals_batch[f].shares_outstanding =
                Ledger(f, "Share Issued", target_date - 1)
          /\ fundamentals_batch[f].total_debt = None
          /\ fundamentals_batch[f].outside_equity = None

(* C10: gap filling writes only the cell (resolved date, ticker) of a       *)
(* ticker that was absent or null there after the bulk fetch: a close price *)
(* that was present on the resolved date, and every entry of another date,  *)
(* stay as the bulk fetch gave them, and no date and no ticker leaves the   *)
(* table (a ticker that gets a column reads null on the other dates).       *)
C10_GapFillFrame ==
    pc # "start" =>
        /\ close_prices.index = {IsoDate(d) : d \in TableDays}
        /\ {c \in tickers_all : BulkHasColumn(c)} \subseteq close_prices.columns
        /\ close_prices.columns \subseteq tickers_all
        /\ \A d \in TableDays : \A c \in close_prices.columns :
              LET before == IF BulkHasColumn(c) THEN BulkValue(c, d) ELSE NaN
              IN  IsoDate(d) # date_str \/ ~IsNa(before) =>
                      close_prices.loc[<<IsoDate(d), c>>] = before

\* after gap filling: one cell was patched, a present price of another ticker
\* and the entries of another date are in the table
C10_Witness ==
    /\ pc = "done"
    /\ Cardinality(TableDays) = 2
    /\ \E c \in tickers_all :
          /\ BulkHasColumn(c) /\ BulkMissing(c)
          /\ close_prices.loc[<<date_str, c>>] = RetryQuote(c, ResolvedDay)
    /\ \E c \in tickers_all :
          /\ ~BulkMissing(c)
          /\ close_prices.loc[<<date_str, c>>] = Quote(c, ResolvedDay)

====
